---- MODULE Spec2Model ----
(***************************************************************************)
(* Model of the WebSocket signaling relay of meet-app-backend:             *)
(*   the Hub (room registry and router)  internal/websocket hub            *)
(*   the connection Handler (read loop, message dispatch, teardown)        *)
(* Every hub method is one atomic step (it runs under h.mu); a handler     *)
(* that calls several hub methods is a sequence of steps of its            *)
(* connection's read goroutine, so that other goroutines interleave        *)
(* between them exactly where the code releases the lock.                  *)
(***************************************************************************)
EXTENDS Integers, Sequences, FiniteSets, TLC

\* ---------------------------------------------------------------- bounds
NumUsers == 2
NumRooms == 2
MaxConns == 3
\* capacity of a client's Send channel (256 in the code), scaled down
SendCap == 2
\* capacity of hub.broadcast (256 in the code), scaled down
BroadcastCap == 2
\* number of inbound messages read over all connections
MaxMsgs == 3
\* the same where only screen-share messages are read
ShareMsgs == 4
\* users and inbound messages where a notification is fanned out to several
\* recipients
FanUsers == 3
FanMsgs == 4
\* connections under the free schedules in which clients are removed
HubConns == 2

Users == 1..NumUsers
Rooms == 1..NumRooms
Conns == 1..MaxConns
\* uuid.Nil / a nil *Client / an absent map key
Nil == 0

VARIABLES
  clients,             \* Hub.clients: room -> user -> connection (Nil: no key)
  pendingClients,      \* Hub.pendingClients: room -> user -> connection
  pendingJoinRequests, \* Hub.pendingJoinRequests: room -> set of requesting users
  screenSharing,       \* screen-share owner per room (Nil: none)
  broadcast,           \* Hub.broadcast: buffered channel of *Message
  send,                \* Client.Send of every connection: buffered channel
  closed,              \* whether Client.Send has been closed
  conn,                \* Client.UserID, Client.MeetingID of every connection
  pc,                  \* where each connection's read goroutine stands
  loc,                 \* that goroutine's local variables
  hubJob,              \* the client Hub.Run took from h.unregister (Nil: idle)
  participants,        \* participant records of the repository: <<user, room>>
  panicked,            \* the process died of a runtime panic
  nmsgs                \* inbound messages read so far

vars == <<clients, pendingClients, pendingJoinRequests, screenSharing, broadcast,
          send, closed, conn, pc, loc, hubJob, participants, panicked, nmsgs>>

\* ---------------------------------------------------------------- messages
\* Message{Type, From, To, MeetingID, Data}; Data is PeerInfo.UserID /
\* JoinRequestInfo.UserID / ScreenShareInfo.UserID (user), the roster of a
\* ready message (peers) or the text of an error or notice (text).
Message(type, from, to, room, user, peers, text) ==
  [type |-> type, from |-> from, to |-> to, room |-> room,
   user |-> user, peers |-> peers, text |-> text]

\* the host of a room is the user that created the meeting
HostOf(r) == 1

NoLoc == [arg |-> Nil, tmp |-> Nil]

HasKey(m, r, u) == m[r][u] # Nil
HasRoom(m, r) == \E u \in DOMAIN m[r] : m[r][u] # Nil
Members(m, r) == {u \in DOMAIN m[r] : m[r][u] # Nil}

\* select { case client.Send <- msg: default: } on an open channel
Enqueue(q, c, m) ==
  IF Len(q[c]) < SendCap THEN [q EXCEPT ![c] = Append(@, m)] ELSE q

\* faulty variant of EnqueueAll: one full queue holds up the whole fan-out
EnqueueAllOrNone(q, T, m) ==
  [c \in Conns |-> IF c \in T /\ \A d \in T : Len(q[d]) < SendCap
                     THEN Append(q[c], m) ELSE q[c]]

\* the same non-blocking send to every connection of the set T
EnqueueAll(q, T, m) ==
  [c \in Conns |-> IF c \in T /\ Len(q[c]) < SendCap THEN Append(q[c], m) ELSE q[c]]

Init ==
  /\ clients = [r \in Rooms |-> [u \in Users |-> Nil]]
  /\ pendingClients = [r \in Rooms |-> [u \in Users |-> Nil]]
  /\ pendingJoinRequests = [r \in Rooms |-> {}]
  /\ screenSharing = [r \in Rooms |-> Nil]
  /\ broadcast = <<>>
  /\ send = [c \in Conns |-> <<>>]
  /\ closed = [c \in Conns |-> FALSE]
  /\ conn = [c \in Conns |-> [user |-> Nil, room |-> Nil]]
  /\ pc = [c \in Conns |-> "new"]
  /\ loc = [c \in Conns |-> NoLoc]
  /\ hubJob = Nil
  /\ participants = {<<HostOf(r), r>> : r \in Rooms}
  /\ panicked = FALSE
  /\ nmsgs = 0


\* ---------------------------------------------------------------- the hub
\* a send or a close on a closed channel is a runtime panic; no goroutine of
\* the pumps recovers, so the process dies
Panic(c) ==
  /\ panicked' = TRUE
  /\ UNCHANGED <<clients, pendingClients, pendingJoinRequests, screenSharing,
                 broadcast, send, closed, conn, pc, loc, hubJob, participants, nmsgs>>

\* Hub.notifyPeerJoined: the clients of the room other than the new one
PeerJoinedTargets(cl, r, u) == {cl[r][v] : v \in Members(cl, r) \ {u}}

\* faulty variant of ExistingPeers: the roster also lists the awaiting clients
ExistingPeersWithPending(cl, r, u) ==
  {conn[cl[r][v]].user : v \in Members(cl, r) \ {u}}
    \cup (Members(pendingClients, r) \ {u})

\* Hub.notifyPeerJoined: existingPeers, the PeerInfo.UserID of every other client
ExistingPeers(cl, r, u) == {conn[cl[r][v]].user : v \in Members(cl, r) \ {u}}

\* faulty variant of notifyPeerJoined: the loop does not skip the new client
notifyPeerJoinedToAll(cl, q, c) ==
  LET r == conn[c].room
      u == conn[c].user
      q1 == EnqueueAll(q, {cl[r][v] : v \in Members(cl, r)},
                       Message("peer-joined", u, Nil, r, u, {}, ""))
  IN IF ExistingPeers(cl, r, u) # {}
       THEN Enqueue(q1, c, Message("ready", Nil, Nil, r, Nil, ExistingPeers(cl, r, u), ""))
       ELSE q1

\* Hub.notifyPeerJoined(newClient) on the clients map cl: the Send channels after it
notifyPeerJoined(cl, q, c) ==
  LET r == conn[c].room
      u == conn[c].user
      q1 == EnqueueAll(q, PeerJoinedTargets(cl, r, u),
                       Message("peer-joined", u, Nil, r, u, {}, ""))
  IN IF ExistingPeers(cl, r, u) # {}
       THEN Enqueue(q1, c, Message("ready", Nil, Nil, r, Nil, ExistingPeers(cl, r, u), ""))
       ELSE q1

\* Hub.notifyPeerJoined sends on a closed channel
notifyPeerJoinedPanics(cl, c) ==
  LET r == conn[c].room
      u == conn[c].user
  IN \/ \E d \in PeerJoinedTargets(cl, r, u) : closed[d]
     \/ ExistingPeers(cl, r, u) # {} /\ closed[c]

\* Hub.notifyPeerLeft(leftClient) on the clients map cl: the Send channels after it
notifyPeerLeft(cl, q, c) ==
  LET r == conn[c].room
      u == conn[c].user
  IN EnqueueAll(q, {cl[r][v] : v \in Members(cl, r) \ {u}},
                Message("peer-left", u, Nil, r, u, {}, ""))

notifyPeerLeftPanics(cl, c) ==
  \E v \in Members(cl, conn[c].room) \ {conn[c].user} : closed[cl[conn[c].room][v]]

\* Hub.AddPendingClient(client)
AddPendingClient(c, u, r) ==
  pendingClients' = [pendingClients EXCEPT ![r][u] = c]

\* faulty variant: the pending client is left in the map
RemovePendingClientKeeps(c) == pendingClients' = pendingClients

\* Hub.RemovePendingClient(client): the key is the client's user id
RemovePendingClient(c) ==
  pendingClients' =
    IF HasKey(pendingClients, conn[c].room, conn[c].user)
      THEN [pendingClients EXCEPT ![conn[c].room][conn[c].user] = Nil]
      ELSE pendingClients

\* Hub.ApproveClient(meetingID, userID): whether a pending client is found
ApproveFinds(r, u) == HasKey(pendingClients, r, u)

\* the clients map after Hub.ApproveClient found the pending client
ApprovedClients(r, u) == [clients EXCEPT ![r][u] = pendingClients[r][u]]

ApproveClientPanics(r, u) ==
  ApproveFinds(r, u) /\ notifyPeerJoinedPanics(ApprovedClients(r, u), pendingClients[r][u])

\* Hub.ApproveClient(meetingID, userID), when it does not panic
ApproveClient(r, u) ==
  IF ApproveFinds(r, u)
    THEN /\ pendingClients' = [pendingClients EXCEPT ![r][u] = Nil]
         /\ clients' = ApprovedClients(r, u)
         /\ send' = notifyPeerJoined(ApprovedClients(r, u), send, pendingClients[r][u])
    ELSE UNCHANGED <<pendingClients, clients, send>>

\* Hub.AddPendingJoinRequest(meetingID, request)
AddPendingJoinRequest(r, u) ==
  pendingJoinRequests' = [pendingJoinRequests EXCEPT ![r] = @ \cup {u}]

\* Hub.RemovePendingJoinRequest(meetingID, userID)
RemovePendingJoinRequest(r, u) ==
  pendingJoinRequests' = [pendingJoinRequests EXCEPT ![r] = @ \ {u}]

\* Hub.GetPendingJoinRequest(meetingID, userID): exists
GetPendingJoinRequest(r, u) == u \in pendingJoinRequests[r]

\* faulty variant of GetHostClient: only the registered clients are searched
GetHostClientRegistered(r, h) ==
  IF HasKey(clients, r, h) THEN clients[r][h] ELSE Nil

\* Hub.GetHostClient(meetingID, hostUserID)
GetHostClient(r, h) ==
  IF HasKey(clients, r, h) THEN clients[r][h]
  ELSE IF HasKey(pendingClients, r, h) THEN pendingClients[r][h]
  ELSE Nil

\* Hub.GetClient(meetingID, userID)
GetClient(r, u) == clients[r][u]

\* Hub.GetScreenSharingUser(meetingID): the owner, Nil when nobody shares
GetScreenSharingUser(r) == screenSharing[r]

\* Hub.StartScreenShare(meetingID, userID) fails: another user owns the token
StartScreenShareFails(r, u) == screenSharing[r] # Nil /\ screenSharing[r] # u

\* Hub.StartScreenShare(meetingID, userID) succeeds
StartScreenShare(r, u) == screenSharing' = [screenSharing EXCEPT ![r] = u]

\* Hub.StopScreenShare(meetingID)
StopScreenShare(r) == screenSharing' = [screenSharing EXCEPT ![r] = Nil]

\* Hub.SendMessage(message): h.broadcast <- message, blocks while the buffer is full
CanSendMessage == Len(broadcast) < BroadcastCap

\* faulty variant of SendMessage: the message overtakes the ones that wait
SendMessageFirst(m) == broadcast' = <<m>> \o broadcast
SendMessage(m) == broadcast' = Append(broadcast, m)

\* faulty variant of Recipient: the recipient is looked up in every meeting
RecipientAnyMeeting(m) ==
  IF \E r \in Rooms : HasKey(clients, r, m.to)
    THEN clients[CHOOSE r \in Rooms : HasKey(clients, r, m.to)][m.to]
  ELSE IF \E r \in Rooms : HasKey(pendingClients, r, m.to)
    THEN pendingClients[CHOOSE r \in Rooms : HasKey(pendingClients, r, m.to)][m.to]
  ELSE Nil

\* Hub.broadcastMessage(message): the client a directed message goes to
Recipient(m) ==
  IF HasKey(clients, m.room, m.to) THEN clients[m.room][m.to]
  ELSE IF HasKey(pendingClients, m.room, m.to) THEN pendingClients[m.room][m.to]
  ELSE Nil

\* faulty variant of BroadcastTargets: a broadcast also goes to the awaiting clients
BroadcastTargetsWithPending(m) ==
  IF ~HasRoom(clients, m.room) /\ ~HasRoom(pendingClients, m.room) THEN {}
  ELSE IF m.to # Nil
    THEN (IF Recipient(m) # Nil THEN {Recipient(m)} ELSE {})
    ELSE {clients[m.room][v] : v \in Members(clients, m.room) \ {m.from}}
           \cup {pendingClients[m.room][v] : v \in Members(pendingClients, m.room) \ {m.from}}

\* Hub.broadcastMessage(message): the clients the message is sent to
BroadcastTargets(m) ==
  IF ~HasRoom(clients, m.room) /\ ~HasRoom(pendingClients, m.room) THEN {}
  ELSE IF m.to # Nil
    THEN (IF Recipient(m) # Nil THEN {Recipient(m)} ELSE {})
    ELSE {clients[m.room][v] : v \in Members(clients, m.room) \ {m.from}}

\* faulty variant of broadcastMessage: the sends wait for room in the queue
broadcastMessageBlocking(m) ==
  /\ \A d \in BroadcastTargets(m) : Len(send[d]) < SendCap
  /\ send' = EnqueueAll(send, BroadcastTargets(m), m)

\* Hub.broadcastMessage(message), when it does not panic
broadcastMessage(m) == send' = EnqueueAll(send, BroadcastTargets(m), m)

\* Hub.unregisterClient(client) finds the client's user id in the clients map
UnregisterFinds(c) == HasKey(clients, conn[c].room, conn[c].user)

\* faulty variant of UnregisteredClients: the user is deleted in every meeting
UnregisteredClientsEverywhere(c) ==
  [r \in Rooms |-> [clients[r] EXCEPT ![conn[c].user] = Nil]]

\* the clients map after Hub.unregisterClient deleted the key
UnregisteredClients(c) == [clients EXCEPT ![conn[c].room][conn[c].user] = Nil]

\* Hub.unregisterClient(client): close(client.Send) on a closed channel, or
\* notifyPeerLeft on a closed channel
unregisterClientPanics(c) ==
  UnregisterFinds(c) /\ (closed[c] \/ notifyPeerLeftPanics(UnregisteredClients(c), c))

\* Hub.unregisterClient(client), when it does not panic
unregisterClient(c) ==
  IF UnregisterFinds(c)
    THEN /\ clients' = UnregisteredClients(c)
         /\ closed' = [closed EXCEPT ![c] = TRUE]
         /\ send' = notifyPeerLeft(UnregisteredClients(c), send, c)
    ELSE UNCHANGED <<clients, closed, send>>


\* Hub.broadcastMessage(message) sends on a closed channel
broadcastMessagePanics(m) == \E d \in BroadcastTargets(m) : closed[d]

\* ---------------------------------------------------------------- connections
Goto(c, p, l) ==
  /\ pc' = [pc EXCEPT ![c] = p]
  /\ loc' = [loc EXCEPT ![c] = l]

\* the read loop took one more message off the transport
Reads(c) ==
  /\ ~panicked
  /\ pc[c] = "read"
  /\ nmsgs < MaxMsgs

\* ... and the handler's first step has run
Counted == nmsgs' = nmsgs + 1

\* a step of a handler that is under way
At(c, p) == ~panicked /\ pc[c] = p

\* Handler.sendError(client, message), on an open channel
sendError(c, text) ==
  send' = Enqueue(send, c, Message("error", Nil, Nil, Nil, Nil, {}, text))

\* Handler.HandleWebSocket: the client is created and added to the pending clients
HandleWebSocket(c, u, r) ==
  /\ ~panicked
  /\ pc[c] = "new"
  /\ \A d \in Conns : d < c => pc[d] # "new"
  /\ \A q \in Rooms : q < r => \E d \in Conns : conn[d].room = q
  /\ conn' = [conn EXCEPT ![c] = [user |-> u, room |-> r]]
  /\ AddPendingClient(c, u, r)
  /\ pc' = [pc EXCEPT ![c] = "read"]
  /\ UNCHANGED <<clients, pendingJoinRequests, screenSharing, broadcast, send, closed,
                 loc, hubJob, participants, panicked, nmsgs>>

\* Handler.readPump: ReadMessage fails (the peer went away, the read deadline
\* passed, or the write pump closed the transport); the deferred teardown starts
ReadError(c) ==
  /\ At(c, "read")
  /\ pc' = [pc EXCEPT ![c] = "td_pending"]
  /\ UNCHANGED <<clients, pendingClients, pendingJoinRequests, screenSharing, broadcast,
                 send, closed, conn, loc, hubJob, participants, panicked, nmsgs>>

\* Handler.readPump, deferred: h.hub.RemovePendingClient(client)
TeardownRemovePending(c) ==
  /\ At(c, "td_pending")
  /\ RemovePendingClient(c)
  /\ pc' = [pc EXCEPT ![c] = "td_unreg"]
  /\ UNCHANGED <<clients, pendingJoinRequests, screenSharing, broadcast, send, closed,
                 conn, loc, hubJob, participants, panicked, nmsgs>>

\* Hub.Run: case client := <-h.unregister, the rendezvous with a read goroutine
\* that stands in h.hub.unregister <- client (teardown, or a leave message)
HubTakeUnregister(c) ==
  /\ ~panicked
  /\ hubJob = Nil
  /\ pc[c] \in {"td_unreg", "leave"}
  /\ hubJob' = c
  /\ pc' = [pc EXCEPT ![c] = IF pc[c] = "leave" THEN "read" ELSE "done"]
  /\ UNCHANGED <<clients, pendingClients, pendingJoinRequests, screenSharing, broadcast,
                 send, closed, conn, loc, participants, panicked, nmsgs>>

\* Hub.Run: h.unregisterClient(client)
HubUnregister ==
  /\ ~panicked
  /\ hubJob # Nil
  /\ IF unregisterClientPanics(hubJob)
       THEN Panic(hubJob)
       ELSE /\ unregisterClient(hubJob)
            /\ hubJob' = Nil
            /\ UNCHANGED <<pendingClients, pendingJoinRequests, screenSharing, broadcast,
                           conn, pc, loc, participants, panicked, nmsgs>>

\* Hub.Run: case message := <-h.broadcast: h.broadcastMessage(message)
HubBroadcast ==
  /\ ~panicked
  /\ hubJob = Nil
  /\ broadcast # <<>>
  /\ IF broadcastMessagePanics(Head(broadcast))
       THEN Panic(Nil)
       ELSE /\ broadcastMessage(Head(broadcast))
            /\ broadcast' = Tail(broadcast)
            /\ UNCHANGED <<clients, pendingClients, pendingJoinRequests, screenSharing,
                           closed, conn, pc, loc, hubJob, participants, panicked, nmsgs>>

\* Handler.writePump: takes the queued messages off client.Send and writes them
WritePump(c) ==
  /\ ~panicked
  /\ pc[c] # "new"
  /\ send[c] # <<>>
  /\ send' = [send EXCEPT ![c] = <<>>]
  /\ UNCHANGED <<clients, pendingClients, pendingJoinRequests, screenSharing, broadcast,
                 closed, conn, pc, loc, hubJob, participants, panicked, nmsgs>>

\* MeetingService.JoinMeeting: the participant record is created over HTTP
JoinMeeting(u, r) ==
  /\ ~panicked
  /\ <<u, r>> \notin participants
  /\ participants' = participants \cup {<<u, r>>}
  /\ UNCHANGED <<clients, pendingClients, pendingJoinRequests, screenSharing, broadcast,
                 send, closed, conn, pc, loc, hubJob, panicked, nmsgs>>


\* ---------------------------------------------------------------- handlers
SignalKinds == {"offer", "answer", "ice-candidate"}

\* the from and meeting_id fields a peer may put on the wire: both absent, or
\* any user id with any meeting id
WireHeaders ==
  {[from |-> Nil, room |-> Nil]} \cup [from : Users, room : Rooms]

\* faulty variant: the fields of the wire message are kept
StampFromWire(c, m) == m

\* readPump: msg.From = client.UserID; msg.MeetingID = client.MeetingID
Stamp(c, m) == [m EXCEPT !.from = conn[c].user, !.room = conn[c].room]

\* the rest of the state a step of a handler on its own channel leaves alone
HandlerFrame ==
  UNCHANGED <<clients, pendingClients, pendingJoinRequests, screenSharing, broadcast,
              closed, conn, hubJob, participants, panicked>>

\* handleMessage: offer, answer, ice-candidate
handleSignal(c, kind, to, wire) ==
  /\ Reads(c)
  /\ IF to = Nil
       THEN IF closed[c]
              THEN Panic(c)
              ELSE /\ sendError(c, "Recipient is required for signaling messages")
                   /\ Counted
                   /\ UNCHANGED <<clients, pendingClients, pendingJoinRequests, screenSharing,
                                  broadcast, closed, conn, pc, loc, hubJob, participants,
                                  panicked>>
       ELSE /\ CanSendMessage
            /\ SendMessage(Stamp(c, Message(kind, wire.from, to, wire.room, Nil, {}, "")))
            /\ Counted
            /\ UNCHANGED <<clients, pendingClients, pendingJoinRequests, screenSharing,
                           send, closed, conn, pc, loc, hubJob, participants, panicked>>

\* handleMessage: media-state-changed
handleMediaStateChanged(c, wire) ==
  /\ Reads(c)
  /\ CanSendMessage
  /\ SendMessage(Stamp(c, Message("media-state-changed", wire.from, Nil, wire.room, Nil, {}, "")))
  /\ Counted
  /\ UNCHANGED <<clients, pendingClients, pendingJoinRequests, screenSharing,
                 send, closed, conn, pc, loc, hubJob, participants, panicked>>

\* faulty variant: the error goes to every open connection's queue
handleInvalidToAll(c, text) ==
  /\ Reads(c)
  /\ ~closed[c]
  /\ send' = EnqueueAll(send, {d \in Conns : pc[d] # "new" /\ ~closed[d]},
                        Message("error", Nil, Nil, Nil, Nil, {}, text))
  /\ Counted
  /\ UNCHANGED <<clients, pendingClients, pendingJoinRequests, screenSharing,
                 broadcast, closed, conn, pc, loc, hubJob, participants, panicked>>

\* handleMessage: an unknown type, or a payload a handler cannot parse
\* (the three parse failures of a handler differ in the text alone)
handleInvalid(c, text) ==
  /\ Reads(c)
  /\ IF closed[c]
       THEN Panic(c)
       ELSE /\ sendError(c, text)
            /\ Counted
            /\ UNCHANGED <<clients, pendingClients, pendingJoinRequests, screenSharing,
                           broadcast, closed, conn, pc, loc, hubJob, participants, panicked>>

InvalidTexts == {"Unknown message type", "Invalid data"}

\* handleMessage: join (logged), and readPump: a message json.Unmarshal rejects
handleIgnored(c) ==
  /\ Reads(c)
  /\ Counted
  /\ UNCHANGED <<clients, pendingClients, pendingJoinRequests, screenSharing, broadcast,
                 send, closed, conn, pc, loc, hubJob, participants, panicked>>

\* handleMessage: leave: h.hub.unregister <- client
handleLeave(c) ==
  /\ Reads(c)
  /\ pc' = [pc EXCEPT ![c] = "leave"]
  /\ Counted
  /\ UNCHANGED <<clients, pendingClients, pendingJoinRequests, screenSharing, broadcast,
                 send, closed, conn, loc, hubJob, participants, panicked>>

\* handleHostJoin: h.hub.ApproveClient(client.MeetingID, client.UserID)
handleHostJoin(c) ==
  /\ Reads(c)
  /\ IF ApproveClientPanics(conn[c].room, conn[c].user)
       THEN Panic(c)
       ELSE /\ ApproveClient(conn[c].room, conn[c].user)
            /\ Goto(c, "share_read", [arg |-> conn[c].user, tmp |-> Nil])
            /\ Counted
            /\ UNCHANGED <<pendingJoinRequests, screenSharing, broadcast, closed, conn,
                           hubJob, participants, panicked>>

\* handleHostJoin, handleJoinRequest, handleApproveJoinRequest:
\* GetScreenSharingUser and GetClient of the sharing user
ShareRead(c) ==
  /\ At(c, "share_read")
  /\ IF GetScreenSharingUser(conn[c].room) # Nil
        /\ GetClient(conn[c].room, GetScreenSharingUser(conn[c].room)) # Nil
       THEN Goto(c, "share_send", [loc[c] EXCEPT !.tmp = GetScreenSharingUser(conn[c].room)])
       ELSE Goto(c, "read", NoLoc)
  /\ UNCHANGED <<send, nmsgs>>
  /\ HandlerFrame

\* the same handlers: h.hub.SendMessage(screenShareMsg), directed to the new member
ShareSend(c) ==
  /\ At(c, "share_send")
  /\ CanSendMessage
  /\ SendMessage(Message("screen-share-started", loc[c].tmp, loc[c].arg, conn[c].room,
                         loc[c].tmp, {}, ""))
  /\ Goto(c, "read", NoLoc)
  /\ UNCHANGED <<clients, pendingClients, pendingJoinRequests, screenSharing,
                 send, closed, conn, hubJob, participants, panicked, nmsgs>>

\* handleJoinRequest: FindByUserAndMeeting, then ApproveClient for a returning
\* user, AddPendingJoinRequest for a first-time user
handleJoinRequest(c, host) ==
  /\ Reads(c)
  /\ IF <<conn[c].user, conn[c].room>> \in participants
       THEN IF ApproveClientPanics(conn[c].room, conn[c].user)
              THEN Panic(c)
              ELSE /\ ApproveClient(conn[c].room, conn[c].user)
                   /\ Goto(c, "auto_send", [arg |-> conn[c].user, tmp |-> Nil])
                   /\ Counted
                   /\ UNCHANGED <<pendingJoinRequests, screenSharing, broadcast, closed,
                                  conn, hubJob, participants, panicked>>
       ELSE /\ AddPendingJoinRequest(conn[c].room, conn[c].user)
            /\ Goto(c, "jr_pending", [arg |-> host, tmp |-> Nil])
            /\ Counted
            /\ UNCHANGED <<clients, pendingClients, screenSharing, broadcast, send,
                           closed, conn, hubJob, participants, panicked>>

\* handleJoinRequest, returning user: h.hub.SendMessage(approvalMsg)
\* handleApproveJoinRequest: h.hub.SendMessage(approvalMsg)
ApprovalSend(c) ==
  /\ \/ At(c, "auto_send")
     \/ At(c, "ap_send")
  /\ CanSendMessage
  /\ SendMessage(Message("join-approved", Nil, loc[c].arg, conn[c].room, Nil, {}, ""))
  /\ Goto(c, "share_read", loc[c])
  /\ UNCHANGED <<clients, pendingClients, pendingJoinRequests, screenSharing,
                 send, closed, conn, hubJob, participants, panicked, nmsgs>>

\* handleJoinRequest, first-time user: client.Send <- pendingMsg
JoinRequestPending(c) ==
  /\ At(c, "jr_pending")
  /\ IF closed[c]
       THEN Panic(c)
       ELSE /\ send' = Enqueue(send, c, Message("join-request-pending", Nil, Nil,
                                               conn[c].room, Nil, {}, ""))
            /\ Goto(c, "jr_host", loc[c])
            /\ UNCHANGED nmsgs
            /\ HandlerFrame

\* handleJoinRequest: hostClient := h.hub.GetHostClient(client.MeetingID, hostUserID)
JoinRequestHost(c) ==
  /\ At(c, "jr_host")
  /\ Goto(c, "jr_notify", [loc[c] EXCEPT !.tmp = GetHostClient(conn[c].room, loc[c].arg)])
  /\ UNCHANGED <<send, nmsgs>>
  /\ HandlerFrame

\* handleJoinRequest: hostClient.Send <- notifyMsg, or sendError when there is no host
JoinRequestNotify(c) ==
  /\ At(c, "jr_notify")
  /\ IF closed[IF loc[c].tmp # Nil THEN loc[c].tmp ELSE c]
       THEN Panic(c)
       ELSE /\ IF loc[c].tmp # Nil
                 THEN send' = Enqueue(send, loc[c].tmp,
                                      Message("pending-join-request", conn[c].user, Nil,
                                              conn[c].room, conn[c].user, {}, ""))
                 ELSE sendError(c, "Host is not available")
            /\ Goto(c, "read", NoLoc)
            /\ UNCHANGED nmsgs
            /\ HandlerFrame


\* faulty variant of handleResolve: the request is not looked up
handleResolveUnchecked(c, kind, x) ==
  /\ Reads(c)
  /\ Goto(c, IF kind = "approve" THEN "ap_remove" ELSE "rj_remove",
          [arg |-> x, tmp |-> Nil])
  /\ Counted
  /\ UNCHANGED send
  /\ HandlerFrame

\* handleApproveJoinRequest / handleRejectJoinRequest:
\* h.hub.GetPendingJoinRequest(client.MeetingID, requestUserID)
handleResolve(c, kind, x) ==
  /\ Reads(c)
  /\ IF GetPendingJoinRequest(conn[c].room, x)
       THEN Goto(c, IF kind = "approve" THEN "ap_remove" ELSE "rj_remove",
                 [arg |-> x, tmp |-> Nil])
       ELSE Goto(c, "rs_error", [arg |-> x, tmp |-> Nil])
  /\ Counted
  /\ UNCHANGED send
  /\ HandlerFrame

\* handleApproveJoinRequest / handleRejectJoinRequest:
\* h.sendError(client, "Join request not found")
ResolveError(c) ==
  /\ At(c, "rs_error")
  /\ IF closed[c]
       THEN Panic(c)
       ELSE /\ sendError(c, "Join request not found")
            /\ Goto(c, "read", NoLoc)
            /\ UNCHANGED nmsgs
            /\ HandlerFrame

\* faulty variant of ResolveRemove: the request is left in the map
ResolveRemoveKeeps(c) ==
  /\ \/ At(c, "ap_remove")
     \/ At(c, "rj_remove")
  /\ Goto(c, IF pc[c] = "ap_remove" THEN "ap_approve" ELSE "rj_send", loc[c])
  /\ UNCHANGED <<clients, pendingClients, pendingJoinRequests, screenSharing, broadcast,
                 send, closed, conn, hubJob, participants, panicked, nmsgs>>

\* handleApproveJoinRequest / handleRejectJoinRequest:
\* h.hub.RemovePendingJoinRequest(client.MeetingID, requestUserID)
ResolveRemove(c) ==
  /\ \/ At(c, "ap_remove")
     \/ At(c, "rj_remove")
  /\ RemovePendingJoinRequest(conn[c].room, loc[c].arg)
  /\ Goto(c, IF pc[c] = "ap_remove" THEN "ap_approve" ELSE "rj_send", loc[c])
  /\ UNCHANGED <<clients, pendingClients, screenSharing, broadcast, send, closed, conn,
                 hubJob, participants, panicked, nmsgs>>

\* handleApproveJoinRequest: h.hub.ApproveClient(client.MeetingID, requestUserID)
ApproveApprove(c) ==
  /\ At(c, "ap_approve")
  /\ IF ApproveClientPanics(conn[c].room, loc[c].arg)
       THEN Panic(c)
       ELSE /\ ApproveClient(conn[c].room, loc[c].arg)
            /\ Goto(c, "ap_send", loc[c])
            /\ UNCHANGED <<pendingJoinRequests, screenSharing, broadcast, closed, conn,
                           hubJob, participants, panicked, nmsgs>>

\* faulty variant of RejectSend: the rejection carries no recipient
RejectSendToAll(c) ==
  /\ At(c, "rj_send")
  /\ CanSendMessage
  /\ SendMessage(Message("join-rejected", Nil, Nil, conn[c].room, Nil, {}, ""))
  /\ Goto(c, "read", NoLoc)
  /\ UNCHANGED <<clients, pendingClients, pendingJoinRequests, screenSharing,
                 send, closed, conn, hubJob, participants, panicked, nmsgs>>

\* handleRejectJoinRequest: h.hub.SendMessage(rejectionMsg)
RejectSend(c) ==
  /\ At(c, "rj_send")
  /\ CanSendMessage
  /\ SendMessage(Message("join-rejected", Nil, loc[c].arg, conn[c].room, Nil, {}, ""))
  /\ Goto(c, "read", NoLoc)
  /\ UNCHANGED <<clients, pendingClients, pendingJoinRequests, screenSharing,
                 send, closed, conn, hubJob, participants, panicked, nmsgs>>

\* faulty variant of handleScreenShareStarted: the error of StartScreenShare is ignored
handleScreenShareStartedUnchecked(c) ==
  /\ Reads(c)
  /\ StartScreenShare(conn[c].room, conn[c].user)
  /\ Goto(c, "ss_send", NoLoc)
  /\ Counted
  /\ UNCHANGED <<clients, pendingClients, pendingJoinRequests, broadcast, send, closed,
                 conn, hubJob, participants, panicked>>

\* handleScreenShareStarted: h.hub.StartScreenShare(client.MeetingID, client.UserID)
handleScreenShareStarted(c) ==
  /\ Reads(c)
  /\ IF StartScreenShareFails(conn[c].room, conn[c].user)
       THEN /\ Goto(c, "ss_error", NoLoc)
            /\ UNCHANGED screenSharing
       ELSE /\ StartScreenShare(conn[c].room, conn[c].user)
            /\ Goto(c, "ss_send", NoLoc)
  /\ Counted
  /\ UNCHANGED <<clients, pendingClients, pendingJoinRequests, broadcast, send, closed,
                 conn, hubJob, participants, panicked>>

\* faulty variant of ScreenShareError: no return after sendError
ScreenShareErrorNoReturn(c) ==
  /\ At(c, "ss_error")
  /\ IF closed[c]
       THEN Panic(c)
       ELSE /\ sendError(c, "Failed to start screen sharing")
            /\ Goto(c, "ss_send", NoLoc)
            /\ UNCHANGED nmsgs
            /\ HandlerFrame

\* handleScreenShareStarted: h.sendError(client, "Failed to start screen sharing")
ScreenShareError(c) ==
  /\ At(c, "ss_error")
  /\ IF closed[c]
       THEN Panic(c)
       ELSE /\ sendError(c, "Failed to start screen sharing")
            /\ Goto(c, "read", NoLoc)
            /\ UNCHANGED nmsgs
            /\ HandlerFrame

\* handleScreenShareStarted: h.hub.SendMessage(broadcastMsg)
ScreenShareSend(c) ==
  /\ At(c, "ss_send")
  /\ CanSendMessage
  /\ SendMessage(Message("screen-share-started", conn[c].user, Nil, conn[c].room,
                         conn[c].user, {}, ""))
  /\ Goto(c, "read", NoLoc)
  /\ UNCHANGED <<clients, pendingClients, pendingJoinRequests, screenSharing,
                 send, closed, conn, hubJob, participants, panicked, nmsgs>>

\* handleScreenShareStopped: GetScreenSharingUser, return unless the client shares
handleScreenShareStopped(c) ==
  /\ Reads(c)
  /\ IF GetScreenSharingUser(conn[c].room) = conn[c].user
       THEN Goto(c, "st_stop", NoLoc)
       ELSE UNCHANGED <<pc, loc>>
  /\ Counted
  /\ UNCHANGED send
  /\ HandlerFrame

\* handleScreenShareStopped: h.hub.StopScreenShare(client.MeetingID)
ScreenShareStop(c) ==
  /\ At(c, "st_stop")
  /\ StopScreenShare(conn[c].room)
  /\ Goto(c, "st_send", NoLoc)
  /\ UNCHANGED <<clients, pendingClients, pendingJoinRequests, broadcast, send, closed,
                 conn, hubJob, participants, panicked, nmsgs>>

\* handleScreenShareStopped: h.hub.SendMessage(broadcastMsg)
ScreenShareStoppedSend(c) ==
  /\ At(c, "st_send")
  /\ CanSendMessage
  /\ SendMessage(Message("screen-share-stopped", conn[c].user, Nil, conn[c].room,
                         conn[c].user, {}, ""))
  /\ Goto(c, "read", NoLoc)
  /\ UNCHANGED <<clients, pendingClients, pendingJoinRequests, screenSharing,
                 send, closed, conn, hubJob, participants, panicked, nmsgs>>

\* ---------------------------------------------------------------- the system
\* what arrives from outside: a connection, a message, a transport failure
Event(R) ==
  \/ \E c \in Conns, u \in Users, r \in R : HandleWebSocket(c, u, r)
  \/ \E c \in Conns : ReadError(c)
  \/ \E u \in Users, r \in R : JoinMeeting(u, r)
  \/ \E c \in Conns, k \in SignalKinds, to \in Users \cup {Nil}, w \in WireHeaders :
        handleSignal(c, k, to, w)
  \/ \E c \in Conns, w \in WireHeaders : handleMediaStateChanged(c, w)
  \/ \E c \in Conns, t \in InvalidTexts : handleInvalid(c, t)
  \/ \E c \in Conns : handleIgnored(c)
  \/ \E c \in Conns : handleLeave(c)
  \/ \E c \in Conns : handleHostJoin(c)
  \/ \E c \in Conns, h \in Users : handleJoinRequest(c, h)
  \/ \E c \in Conns, k \in {"approve", "reject"}, x \in Users : handleResolve(c, k, x)
  \/ \E c \in Conns : handleScreenShareStarted(c)
  \/ \E c \in Conns : handleScreenShareStopped(c)

\* the later steps of a handler, of the teardown and of the hub's unregister
Continue ==
  \/ \E c \in Conns : TeardownRemovePending(c)
  \/ \E c \in Conns : HubTakeUnregister(c)
  \/ HubUnregister
  \/ \E c \in Conns : ShareRead(c)
  \/ \E c \in Conns : ShareSend(c)
  \/ \E c \in Conns : ApprovalSend(c)
  \/ \E c \in Conns : JoinRequestPending(c)
  \/ \E c \in Conns : JoinRequestHost(c)
  \/ \E c \in Conns : JoinRequestNotify(c)
  \/ \E c \in Conns : ResolveError(c)
  \/ \E c \in Conns : ResolveRemove(c)
  \/ \E c \in Conns : ApproveApprove(c)
  \/ \E c \in Conns : RejectSend(c)
  \/ \E c \in Conns : ScreenShareError(c)
  \/ \E c \in Conns : ScreenShareSend(c)
  \/ \E c \in Conns : ScreenShareStop(c)
  \/ \E c \in Conns : ScreenShareStoppedSend(c)

\* no handler, teardown or unregister is under way
Idle == hubJob = Nil /\ \A c \in Conns : pc[c] \in {"new", "read", "done"}

\* the write pump of c has something to write
Writable(c) == pc[c] # "new" /\ send[c] # <<>>

\* ... every message has been routed and written, too
Quiet == Idle /\ broadcast = <<>> /\ \A c \in Conns : ~Writable(c)

\* Sequential schedule: an event is handled to its end (the handler, then the
\* hub's routing of what it submitted and the write pumps, in any order) before
\* the next event arrives; the hub routes earlier only for a handler that waits
\* for room in h.broadcast.
Sequential(R) ==
  \/ Quiet /\ Event(R)
  \/ Continue
  \/ (Idle \/ ~CanSendMessage) /\ HubBroadcast
  \/ \E c \in Conns : Idle /\ WritePump(c)

\* one meeting
Next == Sequential({1})

Spec == Init /\ [][Next]_vars

\* several meetings
NextRooms == Sequential(Rooms)

SpecRooms == Init /\ [][NextRooms]_vars

\* The schedule of Spec with the progress the Go runtime gives: a read
\* goroutine in its deferred teardown runs on, and the hub loop, which never
\* waits for a client, takes what stands at h.unregister and handles it
SpecLive ==
  /\ Init /\ [][Next]_vars
  /\ WF_vars(\E c \in Conns : TeardownRemovePending(c))
  /\ WF_vars(\E c \in Conns : HubTakeUnregister(c))
  /\ WF_vars(HubUnregister)

\* Free schedule: every goroutine steps whenever it can
NextConc ==
  \/ Event({1})
  \/ Continue
  \/ HubBroadcast
  \/ \E c \in Conns : WritePump(c)

SpecConc == Init /\ [][NextConc]_vars

\* Screen sharing under the free schedule: connections of one meeting that
\* send screen-share-started and screen-share-stopped only, ShareMsgs of them
InitShare ==
  /\ clients = [r \in Rooms |-> [u \in Users |-> Nil]]
  /\ pendingClients = [r \in Rooms |-> [u \in Users |-> Nil]]
  /\ pendingJoinRequests = [r \in Rooms |-> {}]
  /\ screenSharing = [r \in Rooms |-> Nil]
  /\ broadcast = <<>>
  /\ send = [c \in Conns |-> <<>>]
  /\ closed = [c \in Conns |-> FALSE]
  /\ conn = [c \in Conns |-> [user |-> Nil, room |-> Nil]]
  /\ pc = [c \in Conns |-> "new"]
  /\ loc = [c \in Conns |-> NoLoc]
  /\ hubJob = Nil
  /\ participants = {<<HostOf(r), r>> : r \in Rooms}
  /\ panicked = FALSE
  /\ nmsgs = MaxMsgs - ShareMsgs

NextShare ==
  \/ \E c \in Conns, u \in Users : HandleWebSocket(c, u, 1)
  \/ \E c \in Conns : handleScreenShareStarted(c)
  \/ \E c \in Conns : ScreenShareError(c)
  \/ \E c \in Conns : ScreenShareSend(c)
  \/ \E c \in Conns : handleScreenShareStopped(c)
  \/ \E c \in Conns : ScreenShareStop(c)
  \/ \E c \in Conns : ScreenShareStoppedSend(c)
  \/ HubBroadcast
  \/ \E c \in Conns : WritePump(c)

SpecShare == InitShare /\ [][NextShare]_vars

\* Admission under the free schedule: connections of one meeting that send
\* join-request, approve-join-request and reject-join-request only
NextResolve ==
  \/ \E c \in Conns, u \in Users : HandleWebSocket(c, u, 1)
  \/ \E c \in Conns, h \in Users : handleJoinRequest(c, h)
  \/ \E c \in Conns : JoinRequestPending(c)
  \/ \E c \in Conns : JoinRequestHost(c)
  \/ \E c \in Conns : JoinRequestNotify(c)
  \/ \E c \in Conns, k \in {"approve", "reject"}, x \in Users : handleResolve(c, k, x)
  \/ \E c \in Conns : ResolveError(c)
  \/ \E c \in Conns : ResolveRemove(c)
  \/ \E c \in Conns : ApproveApprove(c)
  \/ \E c \in Conns : ApprovalSend(c)
  \/ \E c \in Conns : RejectSend(c)
  \/ \E c \in Conns : ShareRead(c)
  \/ HubBroadcast
  \/ \E c \in Conns : WritePump(c)

SpecResolve == Init /\ [][NextResolve]_vars

\* Fan-out under the free schedule: FanUsers users of one meeting that register
\* themselves (host-join), broadcast media-state-changed and leave, FanMsgs
\* messages in all; no write pump is forced to run, so that queues fill
InitFan ==
  /\ clients = [r \in Rooms |-> [u \in 1..FanUsers |-> Nil]]
  /\ pendingClients = [r \in Rooms |-> [u \in 1..FanUsers |-> Nil]]
  /\ pendingJoinRequests = [r \in Rooms |-> {}]
  /\ screenSharing = [r \in Rooms |-> Nil]
  /\ broadcast = <<>>
  /\ send = [c \in Conns |-> <<>>]
  /\ closed = [c \in Conns |-> FALSE]
  /\ conn = [c \in Conns |-> [user |-> Nil, room |-> Nil]]
  /\ pc = [c \in Conns |-> "new"]
  /\ loc = [c \in Conns |-> NoLoc]
  /\ hubJob = Nil
  /\ participants = {<<HostOf(r), r>> : r \in Rooms}
  /\ panicked = FALSE
  /\ nmsgs = MaxMsgs - FanMsgs

NextFan ==
  \/ \E c \in Conns, u \in 1..FanUsers : HandleWebSocket(c, u, 1)
  \/ \E c \in Conns : handleHostJoin(c)
  \/ \E c \in Conns : ShareRead(c)
  \/ \E c \in Conns : handleMediaStateChanged(c, [from |-> Nil, room |-> Nil])
  \/ \E c \in Conns : handleLeave(c)
  \/ \E c \in Conns : HubTakeUnregister(c)
  \/ HubUnregister
  \/ HubBroadcast
  \/ \E c \in Conns : WritePump(c)

SpecFan == InitFan /\ [][NextFan]_vars

\* The hub loop under the free schedule: HubConns connections of one meeting
\* that read ShareMsgs messages in all: they register themselves (host-join),
\* broadcast media-state-changed, ask to join (a handler that submits in a
\* later step) and leave
NextHub ==
  \/ \E c \in 1..HubConns, u \in Users : HandleWebSocket(c, u, 1)
  \/ \E c \in Conns : HubTakeUnregister(c)
  \/ HubUnregister
  \/ \E c \in Conns : handleHostJoin(c)
  \/ \E c \in Conns : ShareRead(c)
  \/ \E c \in Conns : handleMediaStateChanged(c, [from |-> Nil, room |-> Nil])
  \/ \E c \in Conns : handleLeave(c)
  \/ \E c \in Conns : handleJoinRequest(c, HostOf(1))
  \/ \E c \in Conns : ApprovalSend(c)
  \/ \E c \in Conns : JoinRequestPending(c)
  \/ \E c \in Conns : JoinRequestHost(c)
  \/ \E c \in Conns : JoinRequestNotify(c)
  \/ HubBroadcast
  \/ \E c \in Conns : WritePump(c)

\* ... with the progress the Go runtime gives: a goroutine that can run does
\* run, and the select of Hub.Run takes every case that stays ready; nothing
\* is assumed of the write pumps, whose transport may be stalled
SpecHub ==
  /\ InitShare /\ [][NextHub]_vars
  /\ WF_vars(HubBroadcast)
  /\ WF_vars(\E c \in Conns : HubTakeUnregister(c))
  /\ WF_vars(HubUnregister)
  /\ WF_vars(\E c \in Conns : ShareRead(c))
  /\ WF_vars(\E c \in Conns : ApprovalSend(c))
  /\ WF_vars(\E c \in Conns : JoinRequestPending(c))
  /\ WF_vars(\E c \in Conns : JoinRequestHost(c))
  /\ WF_vars(\E c \in Conns : JoinRequestNotify(c))

\* Admission while connections come and go, under the free schedule: HubConns
\* connections of one meeting that send the messages of SpecResolve and whose
\* transport may fail
NextAdmit ==
  \/ \E c \in 1..HubConns, u \in Users : HandleWebSocket(c, u, 1)
  \/ \E c \in Conns : ReadError(c)
  \/ \E c \in Conns : TeardownRemovePending(c)
  \/ \E c \in Conns : HubTakeUnregister(c)
  \/ HubUnregister
  \/ \E c \in Conns, h \in Users : handleJoinRequest(c, h)
  \/ \E c \in Conns : JoinRequestPending(c)
  \/ \E c \in Conns : JoinRequestHost(c)
  \/ \E c \in Conns : JoinRequestNotify(c)
  \/ \E c \in Conns, k \in {"approve", "reject"}, x \in Users : handleResolve(c, k, x)
  \/ \E c \in Conns : ResolveError(c)
  \/ \E c \in Conns : ResolveRemove(c)
  \/ \E c \in Conns : ApproveApprove(c)
  \/ \E c \in Conns : ApprovalSend(c)
  \/ \E c \in Conns : RejectSend(c)
  \/ \E c \in Conns : ShareRead(c)
  \/ HubBroadcast
  \/ \E c \in Conns : WritePump(c)

SpecAdmit == Init /\ [][NextAdmit]_vars

\* ---------------------------------------------------------------- properties
\* the queue q after a non-blocking send of m
Offer(q, m) == IF Len(q) < SendCap THEN Append(q, m) ELSE q

\* the last message of a queue is of the given type
LastIs(q, type) == q # <<>> /\ q[Len(q)].type = type

\* the step appends one message of the given type to connection c's queue
Appends(c, type) ==
  /\ Len(send'[c]) = Len(send[c]) + 1
  /\ SubSeq(send'[c], 1, Len(send[c])) = send[c]
  /\ send'[c][Len(send'[c])].type = type

\* the step makes connection c the registered client of its user
Admits(c) ==
  /\ conn[c].room # Nil
  /\ clients[conn[c].room][conn[c].user] # c
  /\ clients'[conn[c].room][conn[c].user] = c

\* the registered clients of connection c's meeting after the step, c's user excepted
OthersAfter(c) ==
  {clients'[conn[c].room][v] : v \in Members(clients', conn[c].room) \ {conn[c].user}}

\* C1: in every reachable state and for every room, no user id is a key of both
\* the awaiting (pending) set and the admitted set
C1_Disjoint ==
  \A r \in Rooms, u \in Users :
    ~(HasKey(pendingClients, r, u) /\ HasKey(clients, r, u))

\* C2: a user that is not the room's host and has no participant record enters
\* the admitted set only by the ApproveClient step of an approve-join-request
\* sent by a different client that is itself admitted
C2_HostGate ==
  [][\A r \in Rooms, u \in Users :
       (/\ u # HostOf(r)
        /\ <<u, r>> \notin participants
        /\ ~HasKey(clients, r, u)
        /\ HasKey(clients', r, u))
       => \E c \in Conns :
            /\ pc[c] = "ap_approve"
            /\ pc'[c] = "ap_send"
            /\ loc[c].arg = u
            /\ conn[c].room = r
            /\ conn[c].user # u
            /\ clients[r][conn[c].user] = c]_vars

\* C3: a screen-share-started request of a user while another user owns the
\* room's screen share fails (the handler takes the error path) and leaves the
\* owner unchanged; the owner of a room changes only from nobody to the
\* requester, or from the requester to nobody
C3_OneOwner ==
  [][/\ \A c \in Conns :
          (/\ pc[c] = "read"
           /\ pc'[c] \in {"ss_error", "ss_send"}
           /\ screenSharing[conn[c].room] \notin {Nil, conn[c].user})
          => pc'[c] = "ss_error" /\ screenSharing' = screenSharing
     /\ \A r \in Rooms :
          screenSharing'[r] # screenSharing[r]
          => screenSharing[r] = Nil \/ screenSharing'[r] = Nil]_vars

\* C3: a request has just failed against another owner
C3_Witness ==
  \E c \in Conns :
    /\ pc[c] = "ss_error"
    /\ screenSharing[conn[c].room] \notin {Nil, conn[c].user}
    /\ clients[conn[c].room][screenSharing[conn[c].room]] # Nil

\* C4 as claimed: every admission enqueues one peer-joined message to every
\* other admitted member of the room and one ready message to the admitted
\* client, the admission of the first member of an empty room included
C4_ReadyAlways ==
  [][\A c \in Conns :
       Admits(c)
       => /\ \A d \in OthersAfter(c) :
               send'[d] = Offer(send[d], Message("peer-joined", conn[c].user, Nil,
                                                 conn[c].room, conn[c].user, {}, ""))
          /\ Len(send[c]) < SendCap => Appends(c, "ready")]_vars

\* C4, amended: every admission enqueues one peer-joined message to every other
\* admitted member of the room (a member whose queue is full is skipped); the
\* admitted client is sent one ready message when the room has another admitted
\* member and nothing when it is the only member; no other queue changes
C4_Admission ==
  [][\A c \in Conns :
       Admits(c)
       => /\ \A d \in OthersAfter(c) :
               send'[d] = Offer(send[d], Message("peer-joined", conn[c].user, Nil,
                                                 conn[c].room, conn[c].user, {}, ""))
          /\ IF OthersAfter(c) # {} /\ Len(send[c]) < SendCap
               THEN Appends(c, "ready")
               ELSE send'[c] = send[c]
          /\ \A d \in Conns \ (OthersAfter(c) \cup {c}) : send'[d] = send[d]]_vars

\* C4: the first message of the run was a host-join that admitted the first
\* member of an empty room, and the member was sent nothing
C4_Witness ==
  \E c \in Conns :
    /\ nmsgs = 1
    /\ pc[c] = "share_read"
    /\ clients[conn[c].room][conn[c].user] = c
    /\ Members(clients, conn[c].room) = {conn[c].user}
    /\ send[c] = <<>>

\* C5: the roster of a ready message lists exactly the users registered in the
\* client's meeting at the moment it is sent, the client's own user excepted
C5_Roster ==
  [][\A c \in Conns :
       (conn[c].room # Nil /\ Appends(c, "ready"))
       => send'[c][Len(send'[c])].peers
            = {v \in Users : clients'[conn[c].room][v] # Nil} \ {conn[c].user}]_vars

\* C5: a ready message with a roster is queued for a client while another
\* meeting has a registered client
C5_Witness ==
  \E c \in Conns :
    /\ LastIs(send[c], "ready")
    /\ send[c][Len(send[c])].peers # {}
    /\ \E r \in Rooms \ {conn[c].room} : Members(clients, r) # {}

\* C6: the removal of a connection that is not a registered client enqueues no
\* message; the removal of a registered client enqueues one peer-left message to
\* each remaining registered client of its meeting and nothing else
C6_PeerLeft ==
  [][\A c \in Conns :
       (hubJob = c /\ hubJob' = Nil)
       => IF clients[conn[c].room][conn[c].user] = c
            THEN \A d \in Conns :
                   send'[d] = IF d \in OthersAfter(c)
                                THEN Offer(send[d], Message("peer-left", conn[c].user, Nil,
                                                            conn[c].room, conn[c].user, {}, ""))
                                ELSE send[d]
            ELSE send' = send]_vars

\* the step is the hub's routing of the message at the head of h.broadcast
Routes == broadcast # <<>> /\ broadcast' = Tail(broadcast)

\* the recipient of a directed message is in neither set of the message's meeting
Undeliverable(m) ==
  /\ m.to # Nil
  /\ ~HasKey(clients, m.room, m.to)
  /\ ~HasKey(pendingClients, m.room, m.to)

C8_IncludingSender ==
  [][Routes => LET m == Head(broadcast) IN
       (/\ m.type = "screen-share-started"
        /\ m.to = Nil
        /\ HasKey(clients, m.room, m.from))
       => \A v \in Members(clients, m.room) :
            send'[clients[m.room][v]] = Offer(send[clients[m.room][v]], m)]_vars

\* C9: when a screen-share-started request fails against another owner, the
\* failing step changes no queue, submits no message and leaves the owner; the
\* handler then enqueues one error to the requester alone, submits no message
\* and returns to the read loop
C9_FailureOnlyToRequester ==
  [][\A c \in Conns :
       /\ (pc[c] = "read" /\ pc'[c] = "ss_error")
          => /\ screenSharing[conn[c].room] \notin {Nil, conn[c].user}
             /\ send' = send
             /\ broadcast' = broadcast
             /\ screenSharing' = screenSharing
       /\ (pc[c] = "ss_error" /\ pc'[c] # "ss_error")
          => /\ pc'[c] = "read"
             /\ broadcast' = broadcast
             /\ screenSharing' = screenSharing
             /\ send' = [send EXCEPT ![c] =
                           Offer(@, Message("error", Nil, Nil, Nil, Nil, {},
                                            "Failed to start screen sharing"))]]_vars

\* C9: the requester is back in its read loop with the error queued, another
\* user still owns the screen share and nothing waits to be routed
C9_Witness ==
  \E c \in Conns :
    /\ pc[c] = "read"
    /\ send[c] # <<>>
    /\ send[c][Len(send[c])].text = "Failed to start screen sharing"
    /\ screenSharing[conn[c].room] \notin {Nil, conn[c].user}
    /\ broadcast = <<>>

\* C10: the join-request of a user without a participant record records the
\* request, leaves both client sets as they are, enqueues join-request-pending
\* to the requester, finds the named host when it is connected to the meeting
\* (registered or awaiting) and enqueues one pending-join-request carrying the
\* requester's user id to the host's connection
C10_JoinRequest ==
  [][\A c \in Conns :
       /\ (/\ pc[c] = "read"
           /\ pc'[c] \in {"jr_pending", "auto_send"}
           /\ <<conn[c].user, conn[c].room>> \notin participants)
          => /\ pc'[c] = "jr_pending"
             /\ conn[c].user \in pendingJoinRequests'[conn[c].room]
             /\ send' = send
             /\ clients' = clients /\ pendingClients' = pendingClients
       /\ (pc[c] = "jr_pending" /\ pc'[c] # "jr_pending")
          => /\ pc'[c] = "jr_host"
             /\ send' = [send EXCEPT ![c] =
                           Offer(@, Message("join-request-pending", Nil, Nil,
                                            conn[c].room, Nil, {}, ""))]
             /\ clients' = clients /\ pendingClients' = pendingClients
             /\ pendingJoinRequests' = pendingJoinRequests
       /\ (pc[c] = "jr_host" /\ pc'[c] # "jr_host")
          => /\ pc'[c] = "jr_notify"
             /\ (HasKey(clients, conn[c].room, loc[c].arg)
                   \/ HasKey(pendingClients, conn[c].room, loc[c].arg))
                => /\ loc'[c].tmp # Nil
                   /\ loc'[c].tmp \in {clients[conn[c].room][loc[c].arg],
                                       pendingClients[conn[c].room][loc[c].arg]}
             /\ send' = send
             /\ clients' = clients /\ pendingClients' = pendingClients
             /\ pendingJoinRequests' = pendingJoinRequests
       /\ (pc[c] = "jr_notify" /\ pc'[c] # "jr_notify" /\ loc[c].tmp # Nil)
          => /\ pc'[c] = "read"
             /\ send' = [send EXCEPT ![loc[c].tmp] =
                           Offer(@, Message("pending-join-request", conn[c].user, Nil,
                                            conn[c].room, conn[c].user, {}, ""))]
             /\ clients' = clients /\ pendingClients' = pendingClients
             /\ pendingJoinRequests' = pendingJoinRequests]_vars

\* C10: a first-time guest is back in its read loop, still awaiting and not
\* registered, its request recorded, join-request-pending in its queue and the
\* pending-join-request carrying its user id in the queue of another connection
C10_Witness ==
  \E c \in Conns, d \in Conns :
    /\ c # d
    /\ conn[d].user # conn[c].user
    /\ pc[c] = "read"
    /\ pendingClients[conn[c].room][conn[c].user] = c
    /\ ~HasKey(clients, conn[c].room, conn[c].user)
    /\ <<conn[c].user, conn[c].room>> \notin participants
    /\ conn[c].user \in pendingJoinRequests[conn[c].room]
    /\ LastIs(send[c], "join-request-pending")
    /\ LastIs(send[d], "pending-join-request")
    /\ send[d][Len(send[d])].user = conn[c].user

\* C11: an approve-join-request for a user with an outstanding request removes
\* the request; when that user is awaiting, ApproveClient moves its client to
\* the registered clients and enqueues one peer-joined to every other registered
\* client (the approver included, when it is registered); join-approved is then
\* submitted to the hub, and the hub enqueues it to the approved user's client
C11_Approve ==
  [][/\ \A c \in Conns :
          /\ (pc[c] = "ap_remove" /\ pc'[c] # "ap_remove")
             => /\ pc'[c] = "ap_approve"
                /\ loc[c].arg \notin pendingJoinRequests'[conn[c].room]
          /\ (/\ pc[c] = "ap_approve"
              /\ pc'[c] # "ap_approve"
              /\ HasKey(pendingClients, conn[c].room, loc[c].arg))
             => /\ pc'[c] = "ap_send"
                /\ clients'[conn[c].room][loc[c].arg] = pendingClients[conn[c].room][loc[c].arg]
                /\ ~HasKey(pendingClients', conn[c].room, loc[c].arg)
                /\ \A v \in Members(clients, conn[c].room) \ {loc[c].arg} :
                     /\ clients'[conn[c].room][v] = clients[conn[c].room][v]
                     /\ send'[clients[conn[c].room][v]]
                          = Offer(send[clients[conn[c].room][v]],
                                  Message("peer-joined", loc[c].arg, Nil, conn[c].room,
                                          loc[c].arg, {}, ""))
          /\ (pc[c] = "ap_send" /\ pc'[c] # "ap_send")
             => broadcast' = Append(broadcast, Message("join-approved", Nil, loc[c].arg,
                                                       conn[c].room, Nil, {}, ""))
     /\ Routes => LET m == Head(broadcast) IN
          (m.type = "join-approved" /\ HasKey(clients, m.room, m.to))
          => send' = [send EXCEPT ![clients[m.room][m.to]] = Offer(@, m)]]_vars

\* C11: a first-time guest has been approved by a registered client: it is
\* registered, its request is gone, join-approved is the last message of its
\* queue and peer-joined for it is the last message of the approver's queue
C11_Witness ==
  \E a \in Conns, b \in Conns :
    /\ conn[a].room # Nil
    /\ conn[b].room = conn[a].room
    /\ conn[b].user # conn[a].user
    /\ clients[conn[a].room][conn[a].user] = a
    /\ clients[conn[b].room][conn[b].user] = b
    /\ <<conn[b].user, conn[b].room>> \notin participants
    /\ conn[b].user \notin pendingJoinRequests[conn[b].room]
    /\ LastIs(send[b], "join-approved")
    /\ LastIs(send[a], "peer-joined")
    /\ send[a][Len(send[a])].user = conn[b].user

\* C12: a reject-join-request for a user with an outstanding request removes the
\* request and submits one join-rejected directed to that user; neither step
\* changes a client set or a queue; the hub enqueues the join-rejected to the
\* named user's client alone and changes no client set
C12_Reject ==
  [][/\ \A c \in Conns :
          /\ (pc[c] = "rj_remove" /\ pc'[c] # "rj_remove")
             => /\ pc'[c] = "rj_send"
                /\ loc[c].arg \notin pendingJoinRequests'[conn[c].room]
                /\ clients' = clients /\ pendingClients' = pendingClients
                /\ send' = send /\ broadcast' = broadcast
          /\ (pc[c] = "rj_send" /\ pc'[c] # "rj_send")
             => /\ pc'[c] = "read"
                /\ broadcast' = Append(broadcast, Message("join-rejected", Nil, loc[c].arg,
                                                          conn[c].room, Nil, {}, ""))
                /\ clients' = clients /\ pendingClients' = pendingClients
                /\ pendingJoinRequests' = pendingJoinRequests
                /\ send' = send
     /\ Routes => LET m == Head(broadcast) IN
          m.type = "join-rejected"
          => /\ clients' = clients /\ pendingClients' = pendingClients
             /\ m.to # Nil
             /\ send' = IF HasKey(clients, m.room, m.to)
                          THEN [send EXCEPT ![clients[m.room][m.to]] = Offer(@, m)]
                        ELSE IF HasKey(pendingClients, m.room, m.to)
                          THEN [send EXCEPT ![pendingClients[m.room][m.to]] = Offer(@, m)]
                        ELSE send]_vars

\* C12: a first-time guest has been rejected by another connected user: it is
\* still awaiting and not registered, its request is gone, join-rejected is the
\* only message of its queue and no other queue holds anything
C12_Witness ==
  \E a \in Conns, b \in Conns :
    /\ conn[a].room # Nil
    /\ conn[b].room = conn[a].room
    /\ conn[b].user # conn[a].user
    /\ pendingClients[conn[b].room][conn[b].user] = b
    /\ ~HasKey(clients, conn[b].room, conn[b].user)
    /\ <<conn[b].user, conn[b].room>> \notin participants
    /\ conn[b].user \notin pendingJoinRequests[conn[b].room]
    /\ Len(send[b]) = 1
    /\ LastIs(send[b], "join-rejected")
    /\ \A d \in Conns \ {b} : send[d] = <<>>

\* C13: an approve-join-request or reject-join-request naming a user without an
\* outstanding request in the resolver's meeting takes the error path; the
\* handler changes no client set and no request, submits nothing to the hub and
\* enqueues one error "Join request not found" to the resolver's queue alone
C13_NoRequest ==
  [][\A c \in Conns :
       /\ (/\ pc[c] = "read"
           /\ pc'[c] \in {"rs_error", "ap_remove", "rj_remove"}
           /\ loc'[c].arg \notin pendingJoinRequests[conn[c].room])
          => /\ pc'[c] = "rs_error"
             /\ clients' = clients /\ pendingClients' = pendingClients
             /\ pendingJoinRequests' = pendingJoinRequests
             /\ send' = send /\ broadcast' = broadcast
       /\ (pc[c] = "rs_error" /\ pc'[c] # "rs_error")
          => /\ pc'[c] = "read"
             /\ clients' = clients /\ pendingClients' = pendingClients
             /\ pendingJoinRequests' = pendingJoinRequests
             /\ broadcast' = broadcast
             /\ send' = [send EXCEPT ![c] =
                           Offer(@, Message("error", Nil, Nil, Nil, Nil, {},
                                            "Join request not found"))]]_vars

\* C13: a resolver is back in its read loop with the error queued, while another
\* user is awaiting in the meeting with an empty queue and the meeting has no
\* outstanding request
C13_Witness ==
  \E c \in Conns, d \in Conns :
    /\ pc[c] = "read"
    /\ send[c] # <<>>
    /\ send[c][Len(send[c])].text = "Join request not found"
    /\ conn[d].room = conn[c].room
    /\ conn[d].user # conn[c].user
    /\ pendingClients[conn[d].room][conn[d].user] = d
    /\ send[d] = <<>>
    /\ pendingJoinRequests[conn[c].room] = {}
    /\ broadcast = <<>>

\* C14, the returning participant: a join-request of a user with a participant
\* record of the meeting takes the auto-approve path at once: no request is
\* recorded, an awaiting client of the user becomes the registered one, no
\* pending-join-request is enqueued to anyone, and join-approved is submitted
C14_Returning ==
  [][\A c \in Conns :
       /\ (/\ pc[c] = "read"
           /\ pc'[c] \in {"jr_pending", "auto_send"}
           /\ <<conn[c].user, conn[c].room>> \in participants)
          => /\ pc'[c] = "auto_send"
             /\ pendingJoinRequests' = pendingJoinRequests
             /\ HasKey(pendingClients, conn[c].room, conn[c].user)
                => /\ clients'[conn[c].room][conn[c].user]
                        = pendingClients[conn[c].room][conn[c].user]
                   /\ ~HasKey(pendingClients', conn[c].room, conn[c].user)
             /\ \A d \in Conns : ~Appends(d, "pending-join-request")
       /\ (pc[c] = "auto_send" /\ pc'[c] # "auto_send")
          => /\ broadcast' = Append(broadcast, Message("join-approved", Nil, conn[c].user,
                                                       conn[c].room, Nil, {}, ""))
             /\ send' = send
             /\ pendingJoinRequests' = pendingJoinRequests]_vars

\* C14, the user admitted through host approval: it is a returning participant
\* from then on, that is, the approval that registers its client leaves a
\* participant record of the user and the meeting, so that a join-request of
\* its next connection is auto-approved without the host being asked
C14_ApprovalIsHistory ==
  [][\A c \in Conns :
       (/\ pc[c] = "ap_approve"
        /\ pc'[c] = "ap_send"
        /\ HasKey(pendingClients, conn[c].room, loc[c].arg))
       => <<loc[c].arg, conn[c].room>> \in participants']_vars

\* C15: routing an offer, answer, ice-candidate or media-state-changed message
\* whose sender is awaiting and not registered in the message's meeting changes
\* the queue of no other user's client
C15_AwaitingSenderBarred ==
  [][Routes => LET m == Head(broadcast) IN
       (/\ m.type \in SignalKinds \cup {"media-state-changed"}
        /\ HasKey(pendingClients, m.room, m.from)
        /\ ~HasKey(clients, m.room, m.from))
       => \A d \in Conns : conn[d].user # m.from => send'[d] = send[d]]_vars

\* C16: routing a message without a recipient enqueues it (unless the queue is
\* full) to the registered client of every user of the message's meeting other
\* than the sender, and changes no other queue: not the sender's, not an
\* awaiting client's, not a client's of another meeting
C16_Broadcast ==
  [][Routes => LET m == Head(broadcast) IN
       m.to = Nil
       => \A d \in Conns :
            send'[d] = IF \E v \in Users \ {m.from} : clients[m.room][v] = d
                         THEN Offer(send[d], m)
                         ELSE send[d]]_vars

\* C16: a media-state-changed broadcast of a registered user has been routed:
\* it is in the queue of the other user's registered client, while the sender's
\* queue and the queue of an awaiting client of the meeting are empty
C16_Witness ==
  \E a \in Conns, b \in Conns, p \in Conns :
    /\ conn[a].room # Nil
    /\ conn[b].room = conn[a].room /\ conn[p].room = conn[a].room
    /\ clients[conn[a].room][conn[a].user] = a
    /\ clients[conn[b].room][conn[b].user] = b
    /\ a # b
    /\ pendingClients[conn[p].room][conn[p].user] = p
    /\ send[a] = <<Message("media-state-changed", conn[b].user, Nil, conn[b].room,
                           Nil, {}, "")>>
    /\ send[b] = <<>>
    /\ send[p] = <<>>
    /\ broadcast = <<>>

\* C17: a user has an outstanding join request in a meeting only while the
\* teardown of some connection of that user to the meeting has not finished
C17_RequestNeedsRequester ==
  \A r \in Rooms : \A u \in pendingJoinRequests[r] :
    \E c \in Conns :
      /\ conn[c].user = u /\ conn[c].room = r
      /\ pc[c] # "done" \/ hubJob = c

\* C18: the hub never runs unregisterClient's close(client.Send) for a client
\* whose Send channel is closed already: whenever the hub has taken a client
\* from h.unregister and finds its user id among the registered clients, the
\* client's channel is open
C18_NoDoubleClose ==
  \A c \in Conns :
    (hubJob = c /\ HasKey(clients, conn[c].room, conn[c].user)) => ~closed[c]

\* C19: when the hub has finished the unregister of a leave message (the
\* client's read loop goes on, its transport is open), the client is held by
\* neither the pending set nor the registered set of its room
C19_LeaveRemoves ==
  [][\A c \in Conns :
       (hubJob = c /\ pc[c] = "read" /\ hubJob' = Nil)
         => /\ clients'[conn[c].room][conn[c].user] # c
            /\ pendingClients'[conn[c].room][conn[c].user] # c]_vars

\* a step that removes the last client of room r from h.clients and
\* h.pendingClients together
Empties(r) ==
  /\ HasRoom(clients, r) \/ HasRoom(pendingClients, r)
  /\ ~HasRoom(clients', r) /\ ~HasRoom(pendingClients', r)

\* C20: a removal that leaves a room with neither pending nor registered
\* clients leaves the hub with no join request for that room (the screen-share
\* owner, kept by code outside src/, is left out of the formula)
C20_EmptyRoomForgotten ==
  [][\A r \in Rooms : Empties(r) => pendingJoinRequests'[r] = {}]_vars

\* what a protocol error of connection c leaves behind: one error with the
\* given text offered to c's queue, every other queue as it was, nothing
\* submitted to the hub, no client set, request or screen-share owner changed,
\* every read goroutine where it was (c in its read loop), the process alive
ErrorReplyOnly(c, text) ==
  /\ send' = [send EXCEPT ![c] = Offer(@, Message("error", Nil, Nil, Nil, Nil, {}, text))]
  /\ broadcast' = broadcast
  /\ clients' = clients /\ pendingClients' = pendingClients
  /\ pendingJoinRequests' = pendingJoinRequests
  /\ screenSharing' = screenSharing
  /\ closed' = closed
  /\ pc' = pc /\ pc'[c] = "read"
  /\ ~panicked'

\* C21: on a connection whose Send channel is open, an offer, answer or
\* ice-candidate without recipient, a message of unknown type and a payload
\* that cannot be parsed each enqueue one error to the sender alone, route
\* nothing, change no registry state and leave the read loop running; a message
\* that cannot be decoded is skipped with the same frame and without an error
C21_ProtocolError ==
  [][\A c \in Conns :
       (nmsgs' # nmsgs /\ pc[c] = "read") =>
       /\ \A kind \in SignalKinds, w \in WireHeaders :
            (handleSignal(c, kind, Nil, w) /\ ~closed[c])
              => ErrorReplyOnly(c, "Recipient is required for signaling messages")
       /\ \A text \in InvalidTexts :
            (handleInvalid(c, text) /\ ~closed[c]) => ErrorReplyOnly(c, text)
       /\ handleIgnored(c)
            => /\ send' = send /\ broadcast' = broadcast
               /\ clients' = clients /\ pendingClients' = pendingClients
               /\ pendingJoinRequests' = pendingJoinRequests
               /\ screenSharing' = screenSharing
               /\ pc' = pc /\ pc'[c] = "read"
               /\ ~panicked']_vars

\* C21: a connection is in its read loop with the error of a signaling message
\* without recipient as the only message of its queue, while another user is
\* registered in the same meeting with an empty queue and nothing waits to be
\* routed
C21_Witness ==
  \E c \in Conns, d \in Conns :
    /\ pc[c] = "read" /\ ~closed[c]
    /\ Len(send[c]) = 1
    /\ send[c][1].text = "Recipient is required for signaling messages"
    /\ conn[d].room = conn[c].room
    /\ conn[d].user # conn[c].user
    /\ clients[conn[d].room][conn[d].user] = d
    /\ send[d] = <<>>
    /\ broadcast = <<>>

\* connection c reads message m off the wire with header w and forwards it
Forwards(c, m, w) ==
  IF m.type \in SignalKinds
    THEN m.to # Nil /\ handleSignal(c, m.type, m.to, w)
    ELSE m.type = "media-state-changed" /\ handleMediaStateChanged(c, w)

C23_ClearsOwnToken ==
  [][\A c \in Conns :
       (pc[c] = "st_stop" /\ pc'[c] = "st_send")
         => screenSharing[conn[c].room] \in {Nil, conn[c].user}]_vars

\* C24: when a handler that has admitted a user (host-join, approval,
\* auto-approval) looks up the screen share while the meeting has an owner and
\* the admitted user is registered, it goes on to submit one
\* screen-share-started that names the owner and is directed to the admitted
\* user, and enqueues nothing to any queue itself
C24_Replay ==
  [][\A c \in Conns :
       /\ (/\ pc[c] = "share_read" /\ pc'[c] # "share_read"
           /\ HasKey(clients, conn[c].room, loc[c].arg)
           /\ screenSharing[conn[c].room] # Nil)
          => /\ pc'[c] = "share_send"
             /\ loc'[c].arg = loc[c].arg
             /\ loc'[c].tmp = screenSharing[conn[c].room]
       /\ (pc[c] = "share_send" /\ pc'[c] # "share_send")
          => /\ broadcast' = Append(broadcast,
                                    Message("screen-share-started", loc[c].tmp, loc[c].arg,
                                            conn[c].room, loc[c].tmp, {}, ""))
             /\ send' = send]_vars

C26_OneResolution ==
  [][\A c \in Conns :
       (pc[c] \in {"ap_remove", "rj_remove"} /\ pc'[c] # pc[c])
         => loc[c].arg \in pendingJoinRequests[conn[c].room]]_vars

\* an approval has removed the request of a user that is still a pending
\* client: the approving handler stands between RemovePendingJoinRequest and
\* ApproveClient
HalfApproved ==
  \E c \in Conns :
    /\ pc[c] = "ap_approve"
    /\ loc[c].arg \notin pendingJoinRequests[conn[c].room]
    /\ HasKey(pendingClients, conn[c].room, loc[c].arg)

\* C27: the hub routes no message, and no other handler reads a message, in a
\* state in which an approval has removed a user's request while the user is
\* still in the pending set
C27_AtomicApproval ==
  [][HalfApproved => ~(Routes \/ nmsgs' # nmsgs)]_vars

\* the step is a step of connection c's teardown: RemovePendingClient, or the
\* hub's unregisterClient for it
TeardownStep(c) ==
  \/ pc[c] = "td_pending" /\ pc'[c] = "td_unreg"
  \/ hubJob = c /\ pc[c] = "done" /\ hubJob' = Nil

\* C28: a step of one connection's teardown leaves every entry of the pending
\* and of the registered clients that refers to another connection as it is
C28_OwnEntryOnly ==
  [][\A c \in Conns : TeardownStep(c) =>
       \A r \in Rooms, u \in Users :
         /\ pendingClients[r][u] \notin {Nil, c} => pendingClients'[r][u] = pendingClients[r][u]
         /\ clients[r][u] \notin {Nil, c} => clients'[r][u] = clients[r][u]]_vars

\* connection c is held by neither the pending nor the registered clients
Absent(c) ==
  conn[c].room # Nil =>
    /\ pendingClients[conn[c].room][conn[c].user] # c
    /\ clients[conn[c].room][conn[c].user] # c

\* C29: once the read loop of a connection has exited (its teardown has
\* started), the connection is eventually held by neither the pending nor the
\* registered clients of its meeting, as long as the process lives
C29_EventuallyAbsent ==
  \A c \in Conns : (pc[c] = "td_pending") ~> (Absent(c) \/ panicked)

\* C29: the teardown of a registered connection has finished
C29_Witness ==
  \E c \in Conns :
    /\ pc[c] = "done" /\ hubJob = Nil
    /\ closed[c]
    /\ Absent(c)
    /\ ~panicked

\* C30: when the teardown of a connection has finished (the hub has handled its
\* unregister), the connection's Send channel is closed
C30_TeardownCloses ==
  \A c \in Conns : (pc[c] = "done" /\ hubJob # c) => closed[c]

\* the registered clients of message m's meeting, the sender's excepted
BroadcastEligible(m) ==
  {clients[m.room][v] : v \in Members(clients, m.room) \ {m.from}}

\* every connection of the set T is offered m on its own account: it is
\* appended where the queue has room and dropped where the queue is full,
\* whatever the other queues of T hold; no full queue changes
OfferedEach(T, m) ==
  /\ \A d \in T : send'[d] = Offer(send[d], m)
  /\ \A d \in Conns : Len(send[d]) = SendCap => send'[d] = send[d]

\* C31: the fan-out of a broadcast by the hub, of peer-joined on an admission
\* and of peer-left on the removal of a registered client offers the message to
\* every eligible recipient on its own account: a recipient whose queue has
\* room receives it, a recipient whose queue is full loses its copy alone, and
\* a full queue keeps its contents
C31_BestEffort ==
  [][/\ Routes => LET m == Head(broadcast) IN
          m.to = Nil => OfferedEach(BroadcastEligible(m), m)
     /\ \A c \in Conns :
          /\ Admits(c)
               => OfferedEach(OthersAfter(c),
                              Message("peer-joined", conn[c].user, Nil, conn[c].room,
                                      conn[c].user, {}, ""))
          /\ (hubJob = c /\ hubJob' = Nil /\ HasKey(clients, conn[c].room, conn[c].user))
               => OfferedEach(OthersAfter(c),
                              Message("peer-left", conn[c].user, Nil, conn[c].room,
                                      conn[c].user, {}, ""))]_vars

\* C31: three users are registered in one meeting; the queue of the first is
\* full of the two peer-joined notices, and the media-state-changed broadcast
\* of the third, dropped for the first, is in the queue of the second
C31_Witness ==
  \E a \in Conns, b \in Conns, c \in Conns :
    /\ a # b /\ b # c /\ a # c
    /\ conn[a].room # Nil /\ conn[b].room = conn[a].room /\ conn[c].room = conn[a].room
    /\ clients[conn[a].room][conn[a].user] = a
    /\ clients[conn[b].room][conn[b].user] = b
    /\ clients[conn[c].room][conn[c].user] = c
    /\ Len(send[a]) = SendCap
    /\ \A i \in 1..Len(send[a]) : send[a][i].type = "peer-joined"
    /\ LastIs(send[b], "media-state-changed")
    /\ send[b][Len(send[b])].from = conn[c].user
    /\ broadcast = <<>>

\* nothing waits for the hub loop: h.broadcast is empty, no read goroutine
\* stands at h.unregister or waits in SendMessage, and the hub holds no client
\* to unregister
HubSettled ==
  /\ broadcast = <<>>
  /\ hubJob = Nil
  /\ \A c \in Conns : pc[c] \notin {"leave", "auto_send"}

\* C32: under any interleaving of the read loops, the hub loop and the write
\* pumps, and with any number of full client queues, whatever waits for the
\* hub loop of a living process is served: again and again a state is reached
\* in which every unregister request has been taken off h.unregister and
\* handled, every message submitted with SendMessage has been routed, and no
\* handler waits for room in h.broadcast
C32_HubProgress == []<>(HubSettled \/ panicked)

\* C32: the hub loop is about to route a broadcast to a registered client
\* whose queue is full
C32_Witness ==
  /\ ~panicked
  /\ hubJob = Nil
  /\ broadcast # <<>>
  /\ Head(broadcast).to = Nil
  /\ \E e \in BroadcastEligible(Head(broadcast)) : Len(send[e]) = SendCap

\* q is what is left of p after some messages were taken off its head
RestOf(q, p) ==
  Len(q) <= Len(p) /\ q = SubSeq(p, Len(p) - Len(q) + 1, Len(p))

\* message type a stands before message type b somewhere in queue q
Before(q, a, b) ==
  \E i \in 1..Len(q), j \in 1..Len(q) : i < j /\ q[i].type = a /\ q[j].type = b

\* C33: a client's queue and h.broadcast change only by an append at the tail
\* or by the removal of messages from the head (what the write pump takes off
\* a queue it takes in the order of enqueueing), and the hub enqueues the head
\* of h.broadcast only; of the messages one admission emits for the admitted
\* client, the roster (ready) is never enqueued after join-approved, nor
\* join-approved after the screen-share replay
C33_Order ==
  [][/\ \A d \in Conns :
          \/ send'[d] = send[d]
          \/ Len(send'[d]) = Len(send[d]) + 1
               /\ SubSeq(send'[d], 1, Len(send[d])) = send[d]
               /\ Routes => send'[d][Len(send'[d])] = Head(broadcast)
          \/ RestOf(send'[d], send[d])
     /\ \/ broadcast' = broadcast
        \/ Len(broadcast') = Len(broadcast) + 1
             /\ SubSeq(broadcast', 1, Len(broadcast)) = broadcast
        \/ broadcast' = Tail(broadcast)
     /\ \A d \in Conns :
          /\ ~Before(send'[d], "join-approved", "ready")
          /\ ~Before(send'[d], "screen-share-started", "join-approved")
          /\ ~Before(send'[d], "screen-share-started", "ready")]_vars

\* C33: the write pump of an admitted client has written the roster, and the
\* queue holds join-approved and then the replay of the screen share that
\* another user owns
C33_Witness ==
  \E d \in Conns :
    /\ conn[d].room # Nil
    /\ clients[conn[d].room][conn[d].user] = d
    /\ Len(send[d]) = 2
    /\ send[d][1].type = "join-approved"
    /\ send[d][2].type = "screen-share-started"
    /\ send[d][2].to = conn[d].user
    /\ send[d][2].from # conn[d].user

\* C34: the process never dies of a send on a closed channel: the only step
\* in which it could die is the hub's second close of a client's queue (C18);
\* no handler and no routing or notifying step of the hub finds the queue it
\* sends to closed
C34_NoSendOnClosed ==
  [][(~panicked /\ panicked')
       => /\ hubJob # Nil
          /\ UnregisterFinds(hubJob)
          /\ closed[hubJob]]_vars

\* C35: whenever the hub enqueues a join-approved message, the connection it
\* enqueues it to is the registered client of its user, not an awaiting one
C35_ApprovedIsAdmitted ==
  [][Routes => LET m == Head(broadcast) IN
       m.type = "join-approved"
         => \A d \in Conns :
              send'[d] # send[d] => clients[conn[d].room][conn[d].user] = d]_vars

\* the step changes what the hub holds for room r
RoomChanged(r) ==
  \/ clients'[r] # clients[r]
  \/ pendingClients'[r] # pendingClients[r]
  \/ pendingJoinRequests'[r] # pendingJoinRequests[r]
  \/ screenSharing'[r] # screenSharing[r]

\* the step is one of connection c's read goroutine (its connecting, a handler
\* step, its teardown) or the hub's unregister of c
ActsFor(c) ==
  \/ pc'[c] # pc[c]
  \/ nmsgs' # nmsgs /\ pc[c] = "read" /\ send'[c] # send[c]
  \/ hubJob = c /\ hubJob' = Nil

\* C36: a step that changes the client sets, the requests or the screen-share
\* owner of a room is a step for a connection of that room and for no
\* connection of another room; a message appended to a connection's queue is
\* an error reply or carries the meeting of that connection, and the step that
\* appends it is the routing of a message of that meeting or a step for a
\* connection of that meeting
C36_RoomIsolation ==
  [][/\ \A r \in Rooms :
          RoomChanged(r)
            => /\ \E c \in Conns : ActsFor(c)
               /\ \A c \in Conns : ActsFor(c) => conn'[c].room = r
     /\ \A d \in Conns :
          send'[d] # send[d] /\ send'[d] # <<>>
            => /\ Len(send'[d]) = Len(send[d]) + 1
               /\ LET m == send'[d][Len(send'[d])] IN
                    \/ m.type = "error" /\ ActsFor(d)
                    \/ m.room = conn[d].room
               /\ IF Routes THEN Head(broadcast).room = conn[d].room
                            ELSE \E c \in Conns : ActsFor(c) /\ conn[c].room = conn[d].room]_vars

\* C36: a user is registered in both meetings; its connection to the first
\* meeting holds a media-state-changed of another user of that meeting, its
\* connection to the second meeting holds nothing
C36_Witness ==
  \E b \in Conns, x \in Conns :
    /\ conn[b].room = 1 /\ conn[x].room = 2
    /\ conn[b].user = conn[x].user
    /\ clients[1][conn[b].user] = b
    /\ clients[2][conn[x].user] = x
    /\ Len(send[b]) = 1
    /\ send[b][1].type = "media-state-changed"
    /\ send[b][1].room = 1
    /\ send[x] = <<>>

\* C37: when the first inbound message of a run is answered with an error to
\* its sender, the hub holds what it held before any message was read: no
\* registered client, no join request and no screen-share owner, and the
\* answering step leaves the pending clients as they are; in particular a
\* join-request answered with "Host is not available" leaves no request
C37_ErrorLeavesRegistry ==
  [][\A c \in Conns :
       (nmsgs' = 1 /\ Appends(c, "error"))
         => /\ \A r \in Rooms :
                 /\ pendingJoinRequests'[r] = {}
                 /\ ~HasRoom(clients', r)
                 /\ screenSharing'[r] = Nil
            /\ pendingClients' = pendingClients]_vars

\* ---------------------------------------------------------------------------
\* The event hub of package sse (sse.Hub, served on /meetings/:id/events).
\* It is a second hub with its own registry and its own clients.  In the
\* specification SpecSse the variables stand for the fields of that package:
\*   clients  sse.Hub.clients: a function whose domain is the set of meetings
\*            that have an entry, each mapped to the set of client ids of its
\*            inner map (a client id is the connection's number: uuid.New()
\*            gives every Stream call a fresh id)
\*   send, closed   sse.Client.Send and whether it has been closed
\*   conn     sse.Client.UserID and sse.Client.MeetingID
\*   pc       where the Stream handler of the connection stands
\*   nmsgs    the number of broadcasts made so far
\* Every method of the hub holds h.mu for its whole body, so each is one step.

SseEvent(type, data) == [type |-> type, data |-> data]

\* json.Marshal(event): the bytes put on a client's channel.
Marshal(event) == <<"type", event.type, "data", event.data>>

\* The events the meeting handlers send with BroadcastToMeeting: the one of
\* EndMeeting (LeaveMeeting's "participant_left" takes the same path through
\* the hub and is left out to keep the queues' contents few).
SseEvents(r) == {SseEvent("meeting_ended", r)}

InitSse ==
  /\ clients = [r \in {} |-> {}]
  /\ pendingClients = [r \in Rooms |-> [u \in Users |-> Nil]]
  /\ pendingJoinRequests = [r \in Rooms |-> {}]
  /\ screenSharing = [r \in Rooms |-> Nil]
  /\ broadcast = <<>>
  /\ send = [c \in Conns |-> <<>>]
  /\ closed = [c \in Conns |-> FALSE]
  /\ conn = [c \in Conns |-> [user |-> Nil, room |-> Nil]]
  /\ pc = [c \in Conns |-> "new"]
  /\ loc = [c \in Conns |-> NoLoc]
  /\ hubJob = Nil
  /\ participants = {<<HostOf(r), r>> : r \in Rooms}
  /\ panicked = FALSE
  /\ nmsgs = 0

\* h.clients[client.MeetingID][client.ID] = client, creating the inner map first.
Registered(c, r) ==
  [q \in DOMAIN clients \cup {r} |->
     IF q = r THEN (IF r \in DOMAIN clients THEN clients[r] ELSE {}) \cup {c}
     ELSE clients[q]]

\* if clients, ok := h.clients[client.MeetingID]; ok
HasMeeting(r) == r \in DOMAIN clients

\* if _, ok := clients[client.ID]; ok
HasClientAlways(c) == HasMeeting(conn[c].room)

HasClient(c) == HasMeeting(conn[c].room) /\ c \in clients[conn[c].room]

\* The registry after Unregister: the client's key is deleted and an inner map
\* left empty is deleted with it.
Unregistered(c) ==
  LET r == conn[c].room
      rest == IF HasMeeting(r) THEN clients[r] \ {c} ELSE {}
  IN  IF ~HasMeeting(r) THEN clients
      ELSE IF rest = {} THEN [q \in DOMAIN clients \ {r} |-> clients[q]]
      ELSE [clients EXCEPT ![r] = rest]

\* Hub.Unregister(client): what it does to the hub and to the client's channel.
\* close of a channel that is already closed is a panic.
Unregister(c) ==
  IF HasClient(c) /\ closed[c]
  THEN /\ panicked' = TRUE
       /\ UNCHANGED <<clients, closed>>
  ELSE /\ panicked' = panicked
       /\ clients' = Unregistered(c)
       /\ closed' = IF HasClient(c) THEN [closed EXCEPT ![c] = TRUE] ELSE closed

\* Handler.Stream up to the loop: the client is created and registered.
Stream(c, u, r) ==
  /\ ~panicked
  /\ pc[c] = "new"
  /\ \A d \in Conns : d < c => pc[d] # "new"
  /\ \A q \in Rooms : q < r => \E d \in Conns : conn[d].room = q
  /\ conn' = [conn EXCEPT ![c] = [user |-> u, room |-> r]]
  /\ clients' = Registered(c, r)
  /\ pc' = [pc EXCEPT ![c] = "sse_stream"]
  /\ UNCHANGED <<pendingClients, pendingJoinRequests, screenSharing, broadcast, send,
                 closed, loc, hubJob, participants, panicked, nmsgs>>

\* case message, ok := <-client.Send with ok: the event is written to the response.
StreamWrite(c) ==
  /\ ~panicked
  /\ pc[c] = "sse_stream"
  /\ send[c] # <<>>
  /\ send' = [send EXCEPT ![c] = Tail(send[c])]
  /\ UNCHANGED <<clients, pendingClients, pendingJoinRequests, screenSharing, broadcast,
                 closed, conn, pc, loc, hubJob, participants, panicked, nmsgs>>

\* case message, ok := <-client.Send with !ok: the channel is closed and empty;
\* Stream returns and its deferred Unregister runs.
StreamClosed(c) ==
  /\ ~panicked
  /\ pc[c] = "sse_stream"
  /\ closed[c]
  /\ send[c] = <<>>
  /\ Unregister(c)
  /\ pc' = IF panicked' THEN pc ELSE [pc EXCEPT ![c] = "sse_closed"]
  /\ UNCHANGED <<pendingClients, pendingJoinRequests, screenSharing, broadcast, send,
                 conn, loc, hubJob, participants, nmsgs>>

\* case <-notify: the request is over; Stream returns and its deferred
\* Unregister runs.
StreamDone(c) ==
  /\ ~panicked
  /\ pc[c] = "sse_stream"
  /\ Unregister(c)
  /\ pc' = IF panicked' THEN pc ELSE [pc EXCEPT ![c] = "sse_gone"]
  /\ UNCHANGED <<pendingClients, pendingJoinRequests, screenSharing, broadcast, send,
                 conn, loc, hubJob, participants, nmsgs>>

\* A call of the exported Hub.Unregister for a client that was registered,
\* while its Stream runs or after it is over.
UnregisterCall(c) ==
  /\ ~panicked
  /\ pc[c] \in {"sse_stream", "sse_closed", "sse_gone"}
  /\ Unregister(c)
  /\ UNCHANGED <<pendingClients, pendingJoinRequests, screenSharing, broadcast, send,
                 conn, pc, loc, hubJob, participants, nmsgs>>

\* The loop of both broadcasts over the clients T of the meeting's inner map: a
\* send that does not block; a send on a closed channel is a panic.
SseSendAll(T, data) ==
  IF \E d \in T : closed[d]
  THEN /\ panicked' = TRUE
       /\ UNCHANGED <<send, nmsgs>>
  ELSE /\ panicked' = panicked
       /\ send' = [d \in Conns |-> IF d \in T THEN Offer(send[d], data) ELSE send[d]]
       /\ nmsgs' = nmsgs + 1

BroadcastToMeeting(r, event) ==
  /\ ~panicked
  /\ nmsgs < MaxMsgs
  /\ SseSendAll(IF HasMeeting(r) THEN clients[r] ELSE {}, Marshal(event))
  /\ UNCHANGED <<clients, pendingClients, pendingJoinRequests, screenSharing, broadcast,
                 closed, conn, pc, loc, hubJob, participants>>

BroadcastToMeetingExcept(r, excludeUserID, event) ==
  /\ ~panicked
  /\ nmsgs < MaxMsgs
  /\ SseSendAll(IF HasMeeting(r)
                THEN {d \in clients[r] : conn[d].user # excludeUserID} ELSE {},
                Marshal(event))
  /\ UNCHANGED <<clients, pendingClients, pendingJoinRequests, screenSharing, broadcast,
                 closed, conn, pc, loc, hubJob, participants>>

NextSse ==
  \/ \E c \in Conns, u \in Users, r \in Rooms : Stream(c, u, r)
  \/ \E c \in Conns : StreamWrite(c)
  \/ \E c \in Conns : StreamClosed(c)
  \/ \E c \in Conns : StreamDone(c)
  \/ \E c \in Conns : UnregisterCall(c)
  \/ \E r \in Rooms, u \in Users :
       BroadcastToMeetingExcept(r, u, SseEvent("participant_joined", u))
  \/ \E r \in Rooms : \E e \in SseEvents(r) : BroadcastToMeeting(r, e)

SpecSse == InitSse /\ [][NextSse]_vars

\* A subscriber: a client whose Stream has registered it and that no
\* Unregister has reached yet.
Subscriber(c) == pc[c] = "sse_stream" /\ ~closed[c]

SubscribersOf(r) == {d \in Conns : Subscriber(d) /\ conn[d].room = r}

UnregisterOf(c) == UnregisterCall(c) \/ StreamDone(c) \/ StreamClosed(c)

\* C38: in the event hub (sse.Hub) Unregister is idempotent and safe under
\* concurrency.  The first Unregister of a subscriber removes it from the
\* registry, closes its queue (and no other) and discards the meeting's entry
\* exactly when it was the last subscriber; any further Unregister of it
\* changes neither the registry nor a queue and closes nothing; no step closes
\* a closed queue or sends on one (the process never panics); a broadcast to a
\* meeting offers its event to exactly the subscribers of that meeting (but the
\* excluded user's), a full queue keeps its content and every other eligible
\* queue gets the event; and the registry holds exactly the subscribers, with
\* no empty entry.
C38_UnregisterIdempotent ==
  [][/\ ~panicked'
     /\ \A c \in Conns :
          UnregisterOf(c) =>
            IF Subscriber(c)
            THEN /\ closed' = [closed EXCEPT ![c] = TRUE]
                 /\ \A r \in DOMAIN clients' : c \notin clients'[r]
                 /\ (conn[c].room \in DOMAIN clients')
                      <=> (SubscribersOf(conn[c].room) \ {c} # {})
                 /\ \A r \in DOMAIN clients' : clients'[r] = clients[r] \ {c}
                 /\ send' = send
            ELSE /\ clients' = clients
                 /\ closed' = closed
                 /\ send' = send
     /\ \A r \in Rooms : \A e \in SseEvents(r) :
          BroadcastToMeeting(r, e) =>
            /\ \A d \in Conns :
                 send'[d] = IF d \in SubscribersOf(r)
                            THEN Offer(send[d], Marshal(e)) ELSE send[d]
            /\ \A d \in Conns : Len(send[d]) = SendCap => send'[d] = send[d]
            /\ closed' = closed /\ clients' = clients
     /\ \A r \in Rooms, u \in Users :
          BroadcastToMeetingExcept(r, u, SseEvent("participant_joined", u)) =>
            /\ \A d \in Conns :
                 send'[d] = IF d \in SubscribersOf(r) /\ conn[d].user # u
                            THEN Offer(send[d],
                                       Marshal(SseEvent("participant_joined", u)))
                            ELSE send[d]
            /\ \A d \in Conns : Len(send[d]) = SendCap => send'[d] = send[d]
            /\ closed' = closed /\ clients' = clients
     /\ \A r \in Rooms :
          IF SubscribersOf(r)' = {} THEN r \notin DOMAIN clients'
          ELSE r \in DOMAIN clients' /\ clients'[r] = SubscribersOf(r)'
    ]_vars

\* Witness of C38: a client was unregistered twice (by a call while its
\* Stream ran, then by the deferred call when Stream found the channel closed)
\* while another subscriber of its meeting, whose queue is full, stays
\* registered, a subscriber of the other meeting has got nothing, and all the
\* broadcasts have been made.
C38_Witness ==
  /\ ~panicked
  /\ nmsgs = MaxMsgs
  /\ \E a, b, c \in Conns :
       /\ pc[a] = "sse_closed" /\ closed[a]
       /\ Subscriber(b) /\ conn[b].room = conn[a].room
       /\ Len(send[b]) = SendCap
       /\ DOMAIN clients = Rooms
       /\ clients[conn[a].room] = {b}
       /\ Subscriber(c) /\ conn[c].room # conn[a].room
       /\ send[c] = <<>>

====
